---- MODULE Spec2Model ----
(***************************************************************************)
(* Orchestration core of craftserver.                                      *)
(*                                                                         *)
(*   SpecPC   one MinecraftManager object (backend/minecraft_manager.py):  *)
(*            the child process handle, its command channel, the console   *)
(*            drain task and the asyncio event loop the coroutines of the  *)
(*            object run on.                                               *)
(*   SpecReg  the ServerManager registry (backend/server_manager.py):      *)
(*            instance records in insertion order, the current instance,   *)
(*            the cache of per-instance managers and the registry file.    *)
(*   SpecSched  the task scheduler of one MinecraftManager: the task      *)
(*            records, the jobs registered with APScheduler and the tasks  *)
(*            file, under create, update, delete and the firing of jobs.   *)
(*   SpecDispatch  the firing of scheduled restarts and console commands   *)
(*            against a server that is started, exits and is restarted.    *)
(*   SpecProf the PerformanceProfiler (backend/profiler.py): the five      *)
(*            history deques under parsed console lines and iterations of  *)
(*            the monitor loop.                                            *)
(*                                                                         *)
(* The event loop is one thread.  A call on the manager runs from its      *)
(* entry to its first real suspension (asyncio.sleep in restart_server) as *)
(* one step; callers are arbitrary coroutines, so a task created with      *)
(* create_task may get the loop before or after the caller's next call.    *)
(* The child is an operating-system process and may exit between any two   *)
(* statements of a call: such calls choose among the outcomes.             *)
(*                                                                         *)
(* Environment assumptions: file writes and Popen itself do not fail (the  *)
(* java executable exists).  Timestamps of the registry records            *)
(* (created_at, last_accessed) are carried data that no operation reads    *)
(* and are left out.                                                       *)
(***************************************************************************)
EXTENDS Integers, Sequences, FiniteSets, TLC

\* ------------------------------------------------------------------ bounds
\* Number of child processes Popen may create in one run.
MaxSpawn == 2
\* Values of the wall clock, 0..MaxTime.
MaxTime == 1
\* Console commands a caller may write to one process (stop's own command is extra).
MaxChan == 1
\* restart_server coroutines suspended in their settle delay at the same time.
MaxRestarts == 2
\* uuid4 values drawn in one run (instance ids).
MaxIds == 3
\* Explicit ports a caller may give: BasePort .. BasePort + PortSpan.
PortSpan == 1
\* PerformanceProfiler(history_size=...): capacity of each history deque.
history_size == 2
\* Samples appended to one history series in one run.
MaxAppends == 4
\* Lines the child processes write to their stdout in one run.
MaxEmit == 2

\* --------------------------------------------------------------- constants
\* Default port of the default instance and start of the port search.
BasePort == 25565

\* Python's None for a handle or an id (pids and ids count from 1), and for a
\* timestamp (clock values count from 0).
None == 0
NoTime == 0 - 1

VARIABLES
    \* MinecraftManager (SpecPC)
    server_process,   \* self.server_process: None or the pid of the Popen object
    start_time,       \* self.start_time: None or a clock value
    spawned,          \* pids Popen has created
    alive,            \* pids whose process has not exited (poll() is None)
    chan,             \* chan[p]: lines written to the stdin of process p
    killed,           \* pids force-terminated by kill()
    pendingDrains,    \* _monitor_logs tasks created and not yet run
    drainOn,          \* None, or the pid whose stdout a running _monitor_logs blocks on
    sleepers,         \* number of restart_server coroutines suspended in asyncio.sleep(2)
    now,              \* time.time()
    lastCall,         \* the last completed call on the manager and its outcome
    \* ServerManager (SpecReg)
    servers,          \* self.servers, in dict insertion order
    current_server_id,
    managers,         \* keys of self.managers
    config_file,      \* contents of servers.json
    uuids,            \* number of uuid4 values drawn
    regCall,          \* the last completed call on the registry and its outcome
    \* task scheduler of MinecraftManager (SpecSched)
    scheduled_tasks,  \* self.scheduled_tasks: task id -> the ScheduledTask stored under it
    jobs,             \* jobs registered with self.scheduler
    tasks_file,       \* contents of scheduled_tasks.json
    inflight,         \* ids of jobs whose coroutine is suspended inside restart_server
    backups,          \* directory names under backups_dir (the second they were taken)
    schedCall,        \* the last completed scheduler call or dispatch and its outcome
    \* PerformanceProfiler (SpecProf); values are in tenths (200 is 20.0)
    tps_history, cpu_history, memory_history, tick_time_history, timestamp_history,
    current_tps, current_cpu, current_memory, current_tick_time,
    appended,         \* per series, every value appended to it so far (history variable)
    profCall,         \* the last read of the profiler (alerts, metrics) and what it returned
    \* console bridge of MinecraftManager (SpecConsole); a line is its number
    stdout,           \* stdout[p]: lines process p has written and _monitor_logs has not read
    log_file,         \* logs/server.log: whether it exists, and its lines
    subs,             \* per subscriber, the state of its stream_console_logs generator
    emitted,          \* every line a process has written, in order (history variable)
    fed,              \* every line handed to the two extractors, in order (history variable)
    \* a second MinecraftManager on the same event loop (SpecLoop)
    peerCall,         \* the last completed call on it and its outcome
    \* monitoring loop of PerformanceProfiler (SpecMon)
    prof_running,     \* self.is_running of the profiler
    monitor_task,     \* the _monitor_loop task: where it is, its last outcome, failures so far
    \* files of MinecraftManager (SpecLife)
    minecraft_dir     \* what minecraft_dir holds: NoTime for its own files, or the backup restored into it

pcVars == <<server_process, start_time, spawned, alive, chan, killed,
            pendingDrains, drainOn, sleepers, now, lastCall>>
regVars == <<servers, current_server_id, managers, config_file, uuids, regCall>>
schedVars == <<scheduled_tasks, jobs, tasks_file, inflight, backups, schedCall>>
profVars == <<tps_history, cpu_history, memory_history, tick_time_history,
              timestamp_history, current_tps, current_cpu, current_memory,
              current_tick_time, appended, profCall>>
conVars == <<stdout, log_file, subs, emitted, fed>>
peerVars == <<peerCall>>
monVars == <<prof_running, monitor_task>>
lifeVars == <<minecraft_dir>>
vars == <<pcVars, regVars, schedVars, profVars, conVars, peerVars, monVars, lifeVars>>

Pids == 1..MaxSpawn
Commands == {"say hi"}

\* ============================================================ MinecraftManager

\* is_running(): a handle exists and its process has not exited.
is_running_inverted == server_process # None /\ server_process \notin alive
is_running == server_process # None /\ server_process \in alive

\* The event loop thread is free unless a _monitor_logs task sits in its
\* blocking readline loop: that loop holds no await.
LoopFree == drainOn = None

Done(op, result) == [op |-> op, result |-> result]

\* What can happen to the child between the statements of stop_server.
StopOutcomes == {"exit_before_send", "broken_pipe", "graceful", "timeout_kill"}
StopRaises(o) == o \in {"exit_before_send", "broken_pipe"}
StopError(o) == IF o = "exit_before_send" THEN "NotRunning" ELSE "BrokenPipe"

stop_body_kill_always(o) ==
    LET p == server_process IN
    /\ alive' = alive \ {p}
    /\ chan' = IF StopRaises(o) THEN chan ELSE [chan EXCEPT ![p] = Append(@, "stop")]
    /\ killed' = IF StopRaises(o) THEN killed ELSE killed \cup {p}
    /\ server_process' = IF StopRaises(o) THEN server_process ELSE None
    /\ start_time' = IF StopRaises(o) THEN start_time ELSE NoTime

\* Body of stop_server once line 176 has found the process running.
\*  exit_before_send  the child exits before send_command's own check (line 200)
\*  broken_pipe       the child exits after that check: write/flush raise
\*  graceful          "stop" is written and the child exits within wait(30)
\*  timeout_kill      "stop" is written, wait(30) times out, kill()
stop_body(o) ==
    LET p == server_process IN
    /\ alive' = alive \ {p}
    /\ chan' = IF StopRaises(o) THEN chan ELSE [chan EXCEPT ![p] = Append(@, "stop")]
    /\ killed' = IF o = "timeout_kill" THEN killed \cup {p} ELSE killed
    /\ server_process' = IF StopRaises(o) THEN server_process ELSE None
    /\ start_time' = IF StopRaises(o) THEN start_time ELSE NoTime

\* Body of start_server after its is_running check: Popen, the start
\* timestamp, and the scheduling of a new _monitor_logs task.
start_body ==
    LET p == Cardinality(spawned) + 1 IN
    /\ spawned' = spawned \cup {p}
    /\ alive' = alive \cup {p}
    /\ server_process' = p
    /\ start_time' = now
    /\ pendingDrains' = pendingDrains + 1

CanSpawn == Cardinality(spawned) < MaxSpawn

start_server_unguarded ==
    /\ LoopFree
    /\ CanSpawn
    /\ start_body
    /\ lastCall' = Done("start", "ok")
    /\ UNCHANGED <<chan, killed, drainOn, sleepers, now>>

start_server ==
    /\ LoopFree
    /\ IF is_running
         THEN /\ lastCall' = Done("start", "AlreadyRunning")
              /\ UNCHANGED <<server_process, start_time, spawned, alive, pendingDrains>>
         ELSE /\ CanSpawn
              /\ start_body
              /\ lastCall' = Done("start", "ok")
    /\ UNCHANGED <<chan, killed, drainOn, sleepers, now>>

stop_server ==
    /\ LoopFree
    /\ IF ~is_running
         THEN /\ lastCall' = Done("stop", "NotRunning")
              /\ UNCHANGED <<server_process, start_time, alive, chan, killed>>
         ELSE \E o \in StopOutcomes :
                /\ stop_body(o)
                /\ lastCall' = Done("stop", IF StopRaises(o) THEN StopError(o) ELSE "ok")
    /\ UNCHANGED <<spawned, pendingDrains, drainOn, sleepers, now>>

\* send_command(command): the child may exit between the check and the write.
send_command_clearing(c) ==
    /\ LoopFree
    /\ IF ~is_running
         THEN /\ lastCall' = Done("send", "NotRunning")
              /\ server_process' = None
              /\ start_time' = NoTime
              /\ UNCHANGED <<alive, chan>>
         ELSE /\ Len(chan[server_process]) < MaxChan
              /\ \/ /\ chan' = [chan EXCEPT ![server_process] = Append(@, c)]
                    /\ lastCall' = Done("send", "ok")
                    /\ UNCHANGED alive
                 \/ /\ alive' = alive \ {server_process}
                    /\ lastCall' = Done("send", "BrokenPipe")
                    /\ UNCHANGED chan
              /\ UNCHANGED <<server_process, start_time>>
    /\ UNCHANGED <<spawned, killed, pendingDrains, drainOn, sleepers, now>>
send_command(c) ==
    /\ LoopFree
    /\ IF ~is_running
         THEN /\ lastCall' = Done("send", "NotRunning")
              /\ UNCHANGED <<alive, chan>>
         ELSE /\ Len(chan[server_process]) < MaxChan
              /\ \/ /\ chan' = [chan EXCEPT ![server_process] = Append(@, c)]
                    /\ lastCall' = Done("send", "ok")
                    /\ UNCHANGED alive
                 \/ /\ alive' = alive \ {server_process}
                    /\ lastCall' = Done("send", "BrokenPipe")
                    /\ UNCHANGED chan
    /\ UNCHANGED <<server_process, start_time, spawned, killed, pendingDrains,
                   drainOn, sleepers, now>>

\* get_status(): a read; is_running is what the status reports.
get_status ==
    /\ LoopFree
    /\ lastCall' = Done("status", IF is_running THEN "running" ELSE "not_running")
    /\ UNCHANGED <<server_process, start_time, spawned, alive, chan, killed,
                   pendingDrains, drainOn, sleepers, now>>

\* restart_server up to its await asyncio.sleep(2): stop_server if running,
\* then suspend.  An exception of stop_server ends the restart.
restart_begin ==
    /\ LoopFree
    /\ sleepers < MaxRestarts
    /\ IF is_running
         THEN \E o \in StopOutcomes :
                /\ stop_body(o)
                /\ IF StopRaises(o)
                     THEN /\ lastCall' = Done("restart", StopError(o))
                          /\ UNCHANGED sleepers
                     ELSE /\ sleepers' = sleepers + 1
                          /\ UNCHANGED lastCall
         ELSE /\ sleepers' = sleepers + 1
              /\ UNCHANGED <<server_process, start_time, alive, chan, killed, lastCall>>
    /\ UNCHANGED <<spawned, pendingDrains, drainOn, now>>

restart_resume_unguarded ==
    /\ LoopFree
    /\ sleepers > 0
    /\ sleepers' = sleepers - 1
    /\ CanSpawn
    /\ start_body
    /\ lastCall' = Done("restart", "ok")
    /\ UNCHANGED <<chan, killed, drainOn, now>>

\* restart_server after the settle delay: start_server.
restart_resume ==
    /\ LoopFree
    /\ sleepers > 0
    /\ sleepers' = sleepers - 1
    /\ IF is_running
         THEN /\ lastCall' = Done("restart", "AlreadyRunning")
              /\ UNCHANGED <<server_process, start_time, spawned, alive, pendingDrains>>
         ELSE /\ CanSpawn
              /\ start_body
              /\ lastCall' = Done("restart", "ok")
    /\ UNCHANGED <<chan, killed, drainOn, now>>

\* A scheduled _monitor_logs task gets the loop: it returns at once without
\* a handle, otherwise it reads the stdout of the process that is current
\* now, and keeps the thread until that stream ends.
monitor_logs_run ==
    /\ LoopFree
    /\ pendingDrains > 0
    /\ pendingDrains' = pendingDrains - 1
    /\ drainOn' = server_process
    /\ UNCHANGED <<server_process, start_time, spawned, alive, chan, killed,
                   sleepers, now, lastCall>>

\* readline returns '' once the child has exited: the task ends.
monitor_logs_eof ==
    /\ drainOn # None
    /\ drainOn \notin alive
    /\ drainOn' = None
    /\ UNCHANGED <<server_process, start_time, spawned, alive, chan, killed,
                   pendingDrains, sleepers, now, lastCall>>

\* The child process exits on its own.
ProcExit(p) ==
    /\ p \in alive
    /\ alive' = alive \ {p}
    /\ UNCHANGED <<server_process, start_time, spawned, chan, killed,
                   pendingDrains, drainOn, sleepers, now, lastCall>>

Tick ==
    /\ now < MaxTime
    /\ now' = now + 1
    /\ UNCHANGED <<server_process, start_time, spawned, alive, chan, killed,
                   pendingDrains, drainOn, sleepers, lastCall>>

\* create_backup(): a copy of minecraft_dir under backups_dir, named by the
\* second it is taken.
create_backup ==
    /\ LoopFree
    /\ backups' = backups \cup {now}
    /\ lastCall' = Done("backup", "ok")
    /\ UNCHANGED <<server_process, start_time, spawned, alive, chan, killed,
                   pendingDrains, drainOn, sleepers, now, minecraft_dir>>
    /\ UNCHANGED <<scheduled_tasks, jobs, tasks_file, inflight, schedCall>>

\* Names a caller may ask restore_backup for.
BackupNames == 0..MaxTime

\* restore_backup(backup_name) (259-284): raises for a missing backup;
\* otherwise stop_server if running, replace the files, start_server if it
\* was running.  An exception of stop_server ends the restore before any
\* file is touched.
restore_backup(name) ==
    /\ LoopFree
    /\ IF name \notin backups
         THEN /\ lastCall' = Done("restore", "NotFound")
              /\ UNCHANGED <<server_process, start_time, spawned, alive, chan,
                             killed, pendingDrains, minecraft_dir>>
         ELSE IF ~is_running
           THEN /\ minecraft_dir' = name
                /\ lastCall' = Done("restore", "ok")
                /\ UNCHANGED <<server_process, start_time, spawned, alive, chan,
                               killed, pendingDrains>>
           ELSE \E o \in StopOutcomes :
                  IF StopRaises(o)
                    THEN /\ stop_body(o)
                         /\ lastCall' = Done("restore", StopError(o))
                         /\ UNCHANGED <<spawned, pendingDrains, minecraft_dir>>
                    ELSE LET p == server_process
                             q == Cardinality(spawned) + 1 IN
                         /\ CanSpawn
                         /\ chan' = [chan EXCEPT ![p] = Append(@, "stop")]
                         /\ killed' = IF o = "timeout_kill" THEN killed \cup {p}
                                      ELSE killed
                         /\ minecraft_dir' = name
                         /\ spawned' = spawned \cup {q}
                         /\ alive' = (alive \ {p}) \cup {q}
                         /\ server_process' = q
                         /\ start_time' = now
                         /\ pendingDrains' = pendingDrains + 1
                         /\ lastCall' = Done("restore", "ok")
    /\ UNCHANGED <<drainOn, sleepers, now>>

InitPC ==
    /\ server_process = None
    /\ start_time = NoTime
    /\ spawned = {}
    /\ alive = {}
    /\ chan = [p \in Pids |-> <<>>]
    /\ killed = {}
    /\ pendingDrains = 0
    /\ drainOn = None
    /\ sleepers = 0
    /\ now = 0
    /\ lastCall = [op |-> "none", result |-> "none"]

\* =============================================================== ServerManager

Names == {"A"}
DefaultName == "Default Server"
\* Python's None where a name is optional.
NoName == "<None>"
Ports == BasePort .. (BasePort + PortSpan)
AllIds == 1 .. MaxIds

ServerIds(ss) == {ss[i].id : i \in 1..Len(ss)}
UsedPorts(ss) == {ss[i].port : i \in 1..Len(ss)}
IndexOf(ss, id) == CHOOSE i \in 1..Len(ss) : ss[i].id = id

\* _save_servers(): the records and the current id, as they are when it runs.
save_servers(ss, cur) == [exists |-> TRUE, servers |-> ss, current_server_id |-> cur]

\* ServerInfo as _create_default_server builds it.
default_server(id) == [id |-> id, name |-> DefaultName, port |-> BasePort]

\* _find_available_port(): count up from the base port past the used ones.
RECURSIVE find_from(_, _)
find_from(port, used) == IF port \in used THEN find_from(port + 1, used) ELSE port
find_available_port_next(ss) == BasePort + Len(ss)
find_available_port(ss) == find_from(BasePort, UsedPorts(ss))

\* MinecraftManager(minecraft_dir=..., backups_dir=..., logs_dir=...) binds
\* only if __init__ declares these parameters; __init__(self) declares none,
\* so the call in _create_manager raises TypeError.
InitParams == {}
CreateManagerKwargs == {"minecraft_dir", "backups_dir", "logs_dir"}
CtorBinds == CreateManagerKwargs \subseteq InitParams

RegDone(op, result) == [op |-> op, result |-> result]

\* create_server(name, port): no check of an explicit port against the
\* registered ones; the record is stored and saved before the manager is
\* built.  With a manager, the assignment to config.server_port raises, as
\* ServerConfig declares no such field.
create_server(name, port) ==
    /\ uuids < MaxIds
    /\ LET id == uuids + 1
           p == IF port = None THEN find_available_port(servers) ELSE port
       IN /\ uuids' = id
          /\ servers' = Append(servers, [id |-> id, name |-> name, port |-> p])
          /\ config_file' = save_servers(servers', current_server_id)
          /\ IF CtorBinds
               THEN /\ managers' = managers \cup {id}
                    /\ regCall' = RegDone("create", "ValueError")
               ELSE /\ UNCHANGED managers
                    /\ regCall' = RegDone("create", "TypeError")
    /\ UNCHANGED current_server_id

\* What delete_server leaves when the record of id is taken out.
remaining(ss, id) == SelectSeq(ss, LAMBDA r : r.id # id)

delete_server_unchecked(id) ==
    /\ servers' = remaining(servers, id)
    /\ managers' = managers \ {id}
    /\ config_file' = save_servers(servers', current_server_id)
    /\ regCall' = RegDone("delete", "True")
    /\ UNCHANGED <<current_server_id, uuids>>

\* delete_server(id): cleanup() and removal of a cached manager, removal of
\* the record, re-pointing of current, save.
delete_server(id) ==
    IF id \notin ServerIds(servers)
      THEN /\ regCall' = RegDone("delete", "False")
           /\ UNCHANGED <<servers, current_server_id, managers, config_file, uuids>>
      ELSE LET rest == remaining(servers, id) IN
           /\ managers' = managers \ {id}
           /\ IF current_server_id = id
                THEN IF Len(rest) > 0
                       THEN /\ servers' = rest
                            /\ current_server_id' = rest[1].id
                            /\ UNCHANGED uuids
                       ELSE /\ uuids < MaxIds
                            /\ uuids' = uuids + 1
                            /\ servers' = <<default_server(uuids + 1)>>
                            /\ current_server_id' = uuids + 1
                ELSE /\ servers' = rest
                     /\ UNCHANGED <<current_server_id, uuids>>
           /\ config_file' = save_servers(servers', current_server_id')
           /\ regCall' = RegDone("delete", "True")

set_current_server_unchecked(id) ==
    /\ current_server_id' = id
    /\ config_file' = save_servers(servers, id)
    /\ regCall' = RegDone("select", "True")
    /\ UNCHANGED <<servers, managers, uuids>>

\* set_current_server(id)
set_current_server(id) ==
    IF id \notin ServerIds(servers)
      THEN /\ regCall' = RegDone("select", "False")
           /\ UNCHANGED <<servers, current_server_id, managers, config_file, uuids>>
      ELSE /\ current_server_id' = id
           /\ config_file' = save_servers(servers, id)
           /\ regCall' = RegDone("select", "True")
           /\ UNCHANGED <<servers, managers, uuids>>

\* update_server_info(id, name, port): the name is stored before the port is
\* checked; a port held by another instance raises before anything is saved.
update_server_info(id, name, port) ==
    IF id \notin ServerIds(servers)
      THEN /\ regCall' = RegDone("update", "False")
           /\ UNCHANGED <<servers, current_server_id, managers, config_file, uuids>>
      ELSE LET i == IndexOf(servers, id)
               named == IF name # NoName
                          THEN [servers EXCEPT ![i].name = name] ELSE servers
               taken == /\ port # None
                        /\ \E j \in 1..Len(servers) :
                              servers[j].id # id /\ servers[j].port = port
           IN /\ IF taken
                   THEN /\ servers' = named
                        /\ regCall' = RegDone("update", "PortInUse")
                        /\ UNCHANGED config_file
                   ELSE /\ servers' = IF port # None
                                        THEN [named EXCEPT ![i].port = port] ELSE named
                        /\ config_file' = save_servers(servers', current_server_id)
                        /\ regCall' = RegDone("update", "True")
              /\ UNCHANGED <<current_server_id, managers, uuids>>

\* get_manager(id): None stands for the current instance; the registry is
\* saved (last_accessed) before the manager is looked up or built.
get_manager(id) ==
    LET sid == IF id = None THEN current_server_id ELSE id IN
    IF sid = None \/ sid \notin ServerIds(servers)
      THEN /\ regCall' = RegDone("get_manager", "None")
           /\ UNCHANGED <<servers, current_server_id, managers, config_file, uuids>>
      ELSE /\ config_file' = save_servers(servers, current_server_id)
           /\ IF sid \in managers
                THEN /\ regCall' = RegDone("get_manager", "manager")
                     /\ UNCHANGED managers
                ELSE IF CtorBinds
                       THEN /\ managers' = managers \cup {sid}
                            /\ regCall' = RegDone("get_manager", "manager")
                       ELSE /\ regCall' = RegDone("get_manager", "TypeError")
                            /\ UNCHANGED managers
           /\ UNCHANGED <<servers, current_server_id, uuids>>

\* ServerManager(): servers.json does not exist, so _load_servers creates
\* the default instance, makes it current and saves.
InitReg ==
    /\ uuids = 1
    /\ servers = <<default_server(1)>>
    /\ current_server_id = 1
    /\ managers = {}
    /\ config_file = save_servers(<<default_server(1)>>, 1)
    /\ regCall = RegDone("none", "none")


\* ============================================== MinecraftManager: scheduled tasks

\* Ids a caller supplies with a task; the empty id makes create draw a uuid4.
TaskIds == {"t1"}
NoId == ""
TaskUuids == {"u1"}
TaskTypes == {"backup", "restart", "command"}

\* Cron expressions, as the fields CronTrigger.from_crontab splits them into.
Nightly == <<"0", "4", "*", "*", "*">>
Hourly == <<"0", "*", "*", "*", "*">>
Malformed == <<"every", "hour">>
Crons == {Nightly, Hourly, Malformed}
CronFields == {"0", "4", "*"}

\* CronTrigger.from_crontab(expr) raises ValueError unless the expression has
\* five fields, each of them a recognised one.
from_crontab_ok(expr) == Len(expr) = 5 /\ \A i \in 1..5 : expr[i] \in CronFields

\* ScheduledTask objects a caller may pass.  name and next_run are carried
\* data that no operation reads; params is its 'command' entry ("" when the
\* task has none), which only a command task reads.
TaskInputs ==
    {t \in [id : TaskIds \cup {NoId}, task_type : TaskTypes, schedule : Crons,
            enabled : BOOLEAN, last_run : {NoTime}, command : Commands \cup {""}] :
        t.command # "" => t.task_type = "command"}

Put(f, k, v) == [x \in DOMAIN f \cup {k} |-> IF x = k THEN v ELSE f[x]]
Drop(f, k) == [x \in DOMAIN f \ {k} |-> f[x]]

\* json.dump(task.dict(), default=str): a datetime is written as its text,
\* None as null.
json_time(t) == [null |-> t = NoTime, text |-> IF t = NoTime THEN "" ELSE ToString(t)]
task_dict(t) ==
    [id |-> t.id, task_type |-> t.task_type, schedule |-> t.schedule,
     enabled |-> t.enabled, last_run |-> json_time(t.last_run), command |-> t.command]

\* _save_scheduled_tasks(): every stored task, as it is when the call runs.
save_scheduled_tasks(ts) == [exists |-> TRUE, tasks |-> {task_dict(ts[k]) : k \in DOMAIN ts}]

\* get_scheduled_tasks()
get_scheduled_tasks == {scheduled_tasks[k] : k \in DOMAIN scheduled_tasks}

\* scheduler.remove_job(id); the JobLookupError for an absent id is swallowed
\* by the bare except of the callers.
remove_job_noop(js, id) == js
remove_job(js, id) == {x \in js : x.id # id}

\* scheduler.add_job(..., id=task.id, replace_existing=True)
add_job(js, j) == {x \in js : x.id # j.id} \cup {j}

\* _schedule_task(task) for a valid expression: the job holds the trigger
\* built from task.schedule and a closure over the task object itself
\* (live: that object is the one stored in self.scheduled_tasks).
schedule_task_dropped(js, t) == js
schedule_task(js, t) ==
    add_job(js, [id |-> t.id, trigger |-> t.schedule, task_type |-> t.task_type,
                 command |-> t.command, live |-> TRUE])

\* self.scheduled_tasks[id] = <another object>: a job left registered under
\* id still holds the object that was stored before.
Detach(js, id) == {[x EXCEPT !.live = x.live /\ x.id # id] : x \in js}

JobIds(js) == {x.id : x \in js}
KnownTask_any(id) == TRUE
KnownTask(id) == id \in DOMAIN scheduled_tasks

SchedDone(op, result) == [op |-> op, result |-> result]

\* create_scheduled_task(task)
create_scheduled_task(task) ==
    /\ LoopFree
    /\ \E id \in TaskIds \cup TaskUuids :
         /\ IF task.id = NoId
              THEN id \in TaskUuids /\ id \notin DOMAIN scheduled_tasks
                                    /\ id \notin JobIds(jobs) \cup inflight
              ELSE id = task.id
         /\ LET t == [task EXCEPT !.id = id]
                stored == Put(scheduled_tasks, id, t)
            IN
            /\ scheduled_tasks' = stored
            /\ IF ~t.enabled
                 THEN /\ jobs' = Detach(jobs, id)
                      /\ tasks_file' = save_scheduled_tasks(stored)
                      /\ schedCall' = SchedDone("create", "ok")
                 ELSE IF from_crontab_ok(t.schedule)
                        THEN /\ jobs' = schedule_task(jobs, t)
                             /\ tasks_file' = save_scheduled_tasks(stored)
                             /\ schedCall' = SchedDone("create", "ok")
                        ELSE /\ jobs' = Detach(jobs, id)
                             /\ schedCall' = SchedDone("create", "ValueError")
                             /\ UNCHANGED tasks_file
    /\ UNCHANGED <<inflight, backups>>

\* update_scheduled_task(task_id, task)
update_scheduled_task(task_id, task) ==
    /\ LoopFree
    /\ IF ~KnownTask(task_id)
         THEN /\ schedCall' = SchedDone("update", "NotFound")
              /\ UNCHANGED <<scheduled_tasks, jobs, tasks_file>>
         ELSE LET t == [task EXCEPT !.id = task_id]
                  stored == Put(scheduled_tasks, task_id, t)
                  removed == remove_job(jobs, task_id)
              IN
              /\ scheduled_tasks' = stored
              /\ IF ~t.enabled
                   THEN /\ jobs' = removed
                        /\ tasks_file' = save_scheduled_tasks(stored)
                        /\ schedCall' = SchedDone("update", "ok")
                   ELSE IF from_crontab_ok(t.schedule)
                          THEN /\ jobs' = schedule_task(removed, t)
                               /\ tasks_file' = save_scheduled_tasks(stored)
                               /\ schedCall' = SchedDone("update", "ok")
                          ELSE /\ jobs' = removed
                               /\ schedCall' = SchedDone("update", "ValueError")
                               /\ UNCHANGED tasks_file
    /\ UNCHANGED <<inflight, backups>>

\* delete_scheduled_task(task_id)
delete_scheduled_task(task_id) ==
    /\ LoopFree
    /\ IF ~KnownTask(task_id)
         THEN /\ schedCall' = SchedDone("delete", "NotFound")
              /\ UNCHANGED <<scheduled_tasks, jobs, tasks_file>>
         ELSE /\ jobs' = remove_job(jobs, task_id)
              /\ scheduled_tasks' = Drop(scheduled_tasks, task_id)
              /\ tasks_file' = save_scheduled_tasks(Drop(scheduled_tasks, task_id))
              /\ schedCall' = SchedDone("delete", "ok")
    /\ UNCHANGED <<inflight, backups>>

\* create_backup(): copytree to backup_<second>; it raises when that
\* directory exists already.
backup_exists == now \in backups

\* What _execute_scheduled_task reports of its action: an exception of the
\* action is caught and printed (line 530).
Caught(result) == IF result = "ok" THEN "ok" ELSE "failed"

\* The scheduler fires job j: task_wrapper runs _execute_scheduled_task on the
\* task object of the closure, up to its return or to the settle delay of
\* restart_server.  A job whose previous run has not returned is skipped
\* (max_instances is 1).
execute_scheduled_task(j) ==
    /\ LoopFree
    /\ j.id \notin inflight
    /\ LET stamped == IF j.live
                        THEN [scheduled_tasks EXCEPT ![j.id].last_run = now]
                        ELSE scheduled_tasks
       IN
       /\ scheduled_tasks' = stamped
       /\ CASE j.task_type = "backup" ->
                 /\ backups' = backups \cup {now}
                 /\ tasks_file' = save_scheduled_tasks(stamped)
                 /\ schedCall' = SchedDone("fire", IF backup_exists THEN "failed" ELSE "ok")
                 /\ UNCHANGED <<pcVars, inflight>>
            [] j.task_type = "command" ->
                 /\ IF j.command # ""
                      THEN /\ send_command(j.command)
                           /\ schedCall' = SchedDone("fire", Caught(lastCall'.result))
                      ELSE /\ schedCall' = SchedDone("fire", "ok")
                           /\ UNCHANGED pcVars
                 /\ tasks_file' = save_scheduled_tasks(stamped)
                 /\ UNCHANGED <<backups, inflight>>
            [] j.task_type = "restart" ->
                 /\ restart_begin
                 /\ IF sleepers' = sleepers
                      THEN /\ tasks_file' = save_scheduled_tasks(stamped)
                           /\ schedCall' = SchedDone("fire", "failed")
                           /\ UNCHANGED inflight
                      ELSE /\ inflight' = inflight \cup {j.id}
                           /\ UNCHANGED <<tasks_file, schedCall>>
                 /\ UNCHANGED backups
    /\ UNCHANGED jobs

\* A dispatch suspended in restart_server resumes: start_server, then the
\* save that ends _execute_scheduled_task.
execute_resume(id) ==
    /\ id \in inflight
    /\ restart_resume
    /\ inflight' = inflight \ {id}
    /\ tasks_file' = save_scheduled_tasks(scheduled_tasks)
    /\ schedCall' = SchedDone("fire", Caught(lastCall'.result))
    /\ UNCHANGED <<scheduled_tasks, jobs, backups>>

\* MinecraftManager() followed by initialize(): the scheduler is started and
\* scheduled_tasks.json does not exist, so nothing is loaded.
InitSched ==
    /\ scheduled_tasks = <<>>
    /\ jobs = {}
    /\ tasks_file = [exists |-> FALSE, tasks |-> {}]
    /\ inflight = {}
    /\ backups = {}
    /\ schedCall = SchedDone("none", "none")


\* ========================================================= PerformanceProfiler

Series == {"tps", "cpu", "memory", "tick_time", "timestamp"}

\* deque(maxlen=history_size).append(x): once the deque is full, the oldest
\* element is discarded from the left.
deque_append_unbounded(buf, x) == Append(buf, x)
deque_append(buf, x) ==
    IF Len(buf) < history_size THEN Append(buf, x) ELSE Append(Tail(buf), x)

\* A console line, as the words and numbers the two patterns look at.
Word(w) == [w |-> w, n |-> 0]
Num(n) == [w |-> "#", n |-> n]
Lines == { <<Word("TPS"), Num(200)>>,
           <<Word("TPS"), Num(160)>>,
           <<Word("Mean"), Word("tick"), Num(1000), Word("ms")>>,
           <<Word("Done")>> }

SetMin(S) == CHOOSE x \in S : \A y \in S : x <= y

\* re.search(r'TPS.*?(\d+\.?\d*)', line): the first number after the first
\* "TPS"; {} when the pattern does not match.
tps_match(line) ==
    LET marks == {i \in 1..Len(line) : line[i].w = "TPS"}
        nums == {k \in 1..Len(line) : line[k].w = "#" /\ \E i \in marks : i < k}
    IN IF nums = {} THEN {} ELSE {line[SetMin(nums)].n}

\* re.search(r'tick.*?(\d+\.?\d*)\s*ms', line, re.IGNORECASE): the first
\* number that is followed by "ms" after the first "tick".
mspt_match(line) ==
    LET marks == {i \in 1..Len(line) : line[i].w \in {"tick", "Tick", "TICK"}}
        nums == {k \in 1..(Len(line) - 1) :
                    /\ line[k].w = "#"
                    /\ line[k + 1].w \in {"ms", "MS", "Ms", "mS"}
                    /\ \E i \in marks : i < k}
    IN IF nums = {} THEN {} ELSE {line[SetMin(nums)].n}

Min2_max(a, b) == IF a <= b THEN b ELSE a
Min2(a, b) == IF a <= b THEN a ELSE b
Log(app, s, x) == [app EXCEPT ![s] = Append(@, x)]
Log2(app, s1, x1, s2, x2) == [app EXCEPT ![s1] = Append(@, x1), ![s2] = Append(@, x2)]
CanAppend(s) == Len(appended[s]) < MaxAppends

\* The fields of the profiler the two extractors read and write.
Parser ==
    [current_tps |-> current_tps, current_tick_time |-> current_tick_time,
     tps_history |-> tps_history, tick_time_history |-> tick_time_history,
     appended |-> appended]
SetParser(P) ==
    /\ current_tps' = P.current_tps
    /\ current_tick_time' = P.current_tick_time
    /\ tps_history' = P.tps_history
    /\ tick_time_history' = P.tick_time_history
    /\ appended' = P.appended

\* Body of parse_tps_from_log(line) on those fields: tick_time is
\* 50.0 / (tps / 20.0), in tenths.
tps_parsed(P, line) ==
    IF tps_match(line) = {}
      THEN P
      ELSE LET tps == CHOOSE v \in tps_match(line) : TRUE IN
           IF tps > 0
             THEN [current_tps |-> tps,
                   tps_history |-> deque_append(P.tps_history, tps),
                   current_tick_time |-> 100000 \div tps,
                   tick_time_history |-> deque_append(P.tick_time_history, 100000 \div tps),
                   appended |-> Log2(P.appended, "tps", tps, "tick_time", 100000 \div tps)]
             ELSE [P EXCEPT !.current_tps = tps,
                            !.tps_history = deque_append(P.tps_history, tps),
                            !.appended = Log(P.appended, "tps", tps)]

\* Body of parse_mspt_from_log(line): tps is min(20.0, 1000.0 / mspt), in
\* tenths.
mspt_parsed(P, line) ==
    IF mspt_match(line) = {}
      THEN P
      ELSE LET mspt == CHOOSE v \in mspt_match(line) : TRUE IN
           IF mspt > 0
             THEN [current_tick_time |-> mspt,
                   tick_time_history |-> deque_append(P.tick_time_history, mspt),
                   current_tps |-> Min2(200, 100000 \div mspt),
                   tps_history |-> deque_append(P.tps_history, Min2(200, 100000 \div mspt)),
                   appended |-> Log2(P.appended, "tick_time", mspt,
                                     "tps", Min2(200, 100000 \div mspt))]
             ELSE [P EXCEPT !.current_tick_time = mspt,
                            !.tick_time_history = deque_append(P.tick_time_history, mspt),
                            !.appended = Log(P.appended, "tick_time", mspt)]

ProfDone(op, result) == [op |-> op, result |-> result]

parse_tps_from_log(line) ==
    /\ CanAppend("tps") /\ CanAppend("tick_time")
    /\ SetParser(tps_parsed(Parser, line))
    /\ UNCHANGED <<cpu_history, memory_history, timestamp_history, current_cpu,
                   current_memory, profCall>>

parse_mspt_from_log(line) ==
    /\ CanAppend("tps") /\ CanAppend("tick_time")
    /\ SetParser(mspt_parsed(Parser, line))
    /\ UNCHANGED <<cpu_history, memory_history, timestamp_history, current_cpu,
                   current_memory, profCall>>

\* What one iteration of _monitor_loop can meet.
\*  no_container  self.container is None and _find_container does not find it
\*  read_error    container.reload() or stats() raises; caught in
\*                _collect_docker_stats (line 146)
\*  idle          stats are read, cpu_delta or system_delta is 0
\*  sample        stats are read with a CPU percentage
TickOutcomes == {"no_container", "read_error", "idle", "sample"}
CpuReading == 500
MemoryReading == 400

\* One iteration of _monitor_loop up to its sleep.
monitor_tick(o) ==
    /\ CanAppend("cpu") /\ CanAppend("memory") /\ CanAppend("timestamp")
    /\ IF o = "no_container"
         THEN UNCHANGED <<cpu_history, memory_history, timestamp_history,
                          current_cpu, current_memory, appended>>
         ELSE /\ timestamp_history' = deque_append(timestamp_history, now)
              /\ IF o = "sample"
                   THEN /\ current_cpu' = CpuReading
                        /\ cpu_history' = deque_append(cpu_history, CpuReading)
                   ELSE UNCHANGED <<current_cpu, cpu_history>>
              /\ IF o = "read_error"
                   THEN UNCHANGED <<current_memory, memory_history>>
                   ELSE /\ current_memory' = MemoryReading
                        /\ memory_history' = deque_append(memory_history, MemoryReading)
              /\ appended' =
                   [s \in Series |->
                      CASE s = "timestamp" -> Append(appended[s], now)
                        [] s = "cpu" /\ o = "sample" -> Append(appended[s], CpuReading)
                        [] s = "memory" /\ o # "read_error" -> Append(appended[s], MemoryReading)
                        [] OTHER -> appended[s]]
    /\ UNCHANGED <<tps_history, tick_time_history, current_tps, current_tick_time,
                   profCall>>

\* list(history)[-samples:] for samples >= 1.
last_samples(seq, samples) ==
    IF Len(seq) <= samples THEN seq ELSE SubSeq(seq, Len(seq) - samples + 1, Len(seq))

\* get_history_metrics(duration_seconds): the returned series, by name.
get_history_metrics(duration_seconds) ==
    LET samples == Min2(duration_seconds, Len(timestamp_history)) IN
    IF samples = 0
      THEN [s \in Series |-> <<>>]
      ELSE [s \in Series |->
              CASE s = "timestamp" -> last_samples(timestamp_history, samples)
                [] s = "tps" -> last_samples(tps_history, samples)
                [] s = "cpu" -> last_samples(cpu_history, samples)
                [] s = "memory" -> last_samples(memory_history, samples)
                [] s = "tick_time" -> last_samples(tick_time_history, samples)]

\* Values of duration_seconds a caller asks for (60 is the default).
Durations == {1, 60}

\* _get_performance_status(), thresholds in tenths.
get_performance_status_lax ==
    IF current_tps >= 195 THEN "excellent"
    ELSE IF current_tps >= 180 THEN "good"
    ELSE IF current_tps > 150 THEN "fair"
    ELSE "poor"
get_performance_status ==
    IF current_tps >= 195 THEN "excellent"
    ELSE IF current_tps >= 180 THEN "good"
    ELSE IF current_tps >= 150 THEN "fair"
    ELSE "poor"

\* get_current_metrics(): the timestamp and the memory sizes in MB are
\* carried data and are left out.
get_current_metrics ==
    [tps |-> current_tps, cpu_percent |-> current_cpu,
     memory_percent |-> current_memory, tick_time_ms |-> current_tick_time,
     status |-> get_performance_status]

\* The report of a Paper server, "TPS from last 1m, 5m, 15m: 20.0, 19.8,
\* 19.5" (the example of parse_tps_from_log), a line that holds a tick rate
\* and a tick duration, and reports of a mean tick duration of 0, 40 and
\* 50 ms.
PaperReport ==
    <<Word("TPS"), Word("from"), Word("last"), Num(10), Word("m,"), Num(50),
      Word("m,"), Num(150), Word("m:"), Num(200), Word(","), Num(198),
      Word(","), Num(195)>>
BothReport == <<Word("TPS"), Num(190), Word("tick"), Num(1000), Word("ms")>>
ParseLines ==
    Lines \cup { PaperReport, BothReport,
                 <<Word("Mean"), Word("tick"), Num(0), Word("ms")>>,
                 <<Word("Mean"), Word("tick"), Num(400), Word("ms")>>,
                 <<Word("Mean"), Word("tick"), Num(500), Word("ms")>> }

\* get_alerts(): one if / elif pair per category, in the order tps, cpu,
\* memory, tick_time; an alert is {level, type, value} (the message is a
\* rendering of the value).  Thresholds in tenths.
Alert(level, type, value) == [level |-> level, type |-> type, value |-> value]
alert_below_inclusive(type, value, critical, warning) ==
    IF value <= critical THEN <<Alert("critical", type, value)>>
    ELSE IF value <= warning THEN <<Alert("warning", type, value)>>
    ELSE <<>>
alert_below(type, value, critical, warning) ==
    IF value < critical THEN <<Alert("critical", type, value)>>
    ELSE IF value < warning THEN <<Alert("warning", type, value)>>
    ELSE <<>>
alert_above_both(type, value, critical, warning) ==
    (IF value > critical THEN <<Alert("critical", type, value)>> ELSE <<>>)
       \o (IF value > warning THEN <<Alert("warning", type, value)>> ELSE <<>>)
alert_above(type, value, critical, warning) ==
    IF value > critical THEN <<Alert("critical", type, value)>>
    ELSE IF value > warning THEN <<Alert("warning", type, value)>>
    ELSE <<>>
get_alerts ==
    alert_below("tps", current_tps, 150, 180)
       \o alert_above("cpu", current_cpu, 900, 750)
       \o alert_above("memory", current_memory, 900, 800)
       \o alert_above("tick_time", current_tick_time, 1000, 700)

\* A caller of get_alerts() / get_current_metrics(): the profiler is left as
\* it is and the caller holds the result.
call_get_alerts ==
    /\ profCall' = ProfDone("get_alerts", get_alerts)
    /\ UNCHANGED <<tps_history, cpu_history, memory_history, tick_time_history,
                   timestamp_history, current_tps, current_cpu, current_memory,
                   current_tick_time, appended>>
call_get_current_metrics ==
    /\ profCall' = ProfDone("get_current_metrics", get_current_metrics)
    /\ UNCHANGED <<tps_history, cpu_history, memory_history, tick_time_history,
                   timestamp_history, current_tps, current_cpu, current_memory,
                   current_tick_time, appended>>

\* Current values a profiler can hold (tenths), on and around every
\* threshold of get_alerts() and _get_performance_status().
TpsValues == {0, 149, 150, 151, 179, 180, 181, 194, 195, 200}
CpuValues == {0, 750, 751, 900, 901}
MemoryValues == {0, 800, 801, 900, 901}
TickTimeValues == {0, 500, 700, 701, 1000, 1001}

\* A console line as stream_console_logs hands it to the profiler (lines
\* 330-331): parse_tps_from_log, then parse_mspt_from_log.
parse_line_reversed(line) ==
    /\ CanAppend("tps") /\ CanAppend("tick_time")
    /\ Len(appended["tps"]) + 1 < MaxAppends
    /\ SetParser(tps_parsed(mspt_parsed(Parser, line), line))
    /\ UNCHANGED <<cpu_history, memory_history, timestamp_history,
                   current_cpu, current_memory, profCall>>
parse_line(line) ==
    /\ CanAppend("tps") /\ CanAppend("tick_time")
    /\ Len(appended["tps"]) + 1 < MaxAppends
    /\ SetParser(mspt_parsed(tps_parsed(Parser, line), line))
    /\ UNCHANGED <<cpu_history, memory_history, timestamp_history,
                   current_cpu, current_memory, profCall>>

\* PerformanceProfiler(): empty histories, current tps 20.0.
InitProf ==
    /\ tps_history = <<>>
    /\ cpu_history = <<>>
    /\ memory_history = <<>>
    /\ tick_time_history = <<>>
    /\ timestamp_history = <<>>
    /\ current_tps = 200
    /\ current_cpu = 0
    /\ current_memory = 0
    /\ current_tick_time = 0
    /\ appended = [s \in Series |-> <<>>]
    /\ profCall = ProfDone("none", <<>>)

\* ============================================================ monitoring loop

\* PerformanceProfiler(): not running, no task; minecraft_dir holds the
\* instance's own files.
NoTask == [pc |-> "none", last |-> "none", failed |-> FALSE]
InitMon == prof_running = FALSE /\ monitor_task = NoTask
InitLife == minecraft_dir = NoTime

\* start_monitoring(): nothing when already running, else a new task at
\* the head of _monitor_loop.
start_monitoring ==
    /\ IF prof_running
         THEN UNCHANGED monVars
         ELSE /\ prof_running' = TRUE
              /\ monitor_task' = [pc |-> "ready", last |-> "none", failed |-> FALSE]
    /\ UNCHANGED profVars

\* stop_monitoring(): clears the flag and cancels the task in one go, so the
\* loop never reads a false flag at its head.
stop_monitoring ==
    /\ prof_running' = FALSE
    /\ monitor_task' = IF monitor_task.pc = "none" THEN monitor_task
                       ELSE [monitor_task EXCEPT !.pc = "cancelled"]
    /\ UNCHANGED profVars

\* Where the except branch of _monitor_loop (104-106) leaves the task.
after_error_exit == "done"
after_error == "sleep5"

\* One iteration of _monitor_loop (86-106): the outcomes of monitor_tick
\* end in sleep(1); an exception in the body ends in the except branch.
LoopOutcomes == TickOutcomes \cup {"unexpected"}
Failure(o) == o \in {"no_container", "read_error", "unexpected"}
monitor_loop(o) ==
    /\ monitor_task.pc = "ready"
    /\ prof_running
    /\ IF o = "unexpected"
         THEN /\ monitor_task' = [pc |-> after_error, last |-> o, failed |-> TRUE]
              /\ UNCHANGED profVars
         ELSE /\ monitor_tick(o)
              /\ monitor_task' = [pc |-> "sleep1", last |-> o,
                                  failed |-> monitor_task.failed \/ Failure(o)]
    /\ UNCHANGED prof_running

\* asyncio.sleep(1) or asyncio.sleep(5) returns: back to the loop head.
monitor_wake ==
    /\ monitor_task.pc \in {"sleep1", "sleep5"}
    /\ monitor_task' = [monitor_task EXCEPT !.pc = "ready"]
    /\ UNCHANGED prof_running
    /\ UNCHANGED profVars

\* ================================================= a second instance, same loop

\* Another MinecraftManager of the same process, never started.  Its
\* handlers are coroutines of the one asyncio event loop, so each of them
\* needs the loop's thread to run; without a process, status is "not
\* running" and send_command and stop_server raise.
peer_get_status ==
    /\ LoopFree
    /\ peerCall' = Done("status", "not_running")
peer_send_command(c) ==
    /\ LoopFree
    /\ peerCall' = Done("send", "NotRunning")
peer_stop_server ==
    /\ LoopFree
    /\ peerCall' = Done("stop", "NotRunning")

InitPeer == peerCall = Done("none", "none")

\* ============================================================== console bridge

Subscribers == {"s1", "s2"}
NewLine == 200
NoLog == [exists |-> FALSE, lines |-> <<>>]
LogOf(n) == [exists |-> TRUE, lines |-> [i \in 1..n |-> i]]

\* The text of line k: every other line is a tick-rate report.
ConsoleText(k) ==
    IF k % 2 = 1 THEN <<Word("TPS"), Num(180 + (k % 10))>> ELSE <<Word("Done")>>

\* The running child writes its next line to its stdout pipe.
proc_write(p) ==
    /\ p \in alive
    /\ Len(emitted) < MaxEmit
    /\ LET k == NewLine + Len(emitted) + 1 IN
       /\ stdout' = [stdout EXCEPT ![p] = Append(@, k)]
       /\ emitted' = Append(emitted, k)
    /\ UNCHANGED <<log_file, subs, fed>>

\* _monitor_logs gets the loop (lines 306-310): with a handle it opens the
\* log for appending, which creates the file, and starts reading.
monitor_logs_open ==
    /\ monitor_logs_run
    /\ log_file' = IF server_process = None THEN log_file
                   ELSE [log_file EXCEPT !.exists = TRUE]
    /\ UNCHANGED <<stdout, subs, emitted, fed>>

\* One round of its loop (310-314): readline returns a line, which is
\* written to the log and flushed.
monitor_logs_write ==
    /\ drainOn # None
    /\ stdout[drainOn] # <<>>
    /\ stdout' = [stdout EXCEPT ![drainOn] = Tail(@)]
    /\ log_file' = [log_file EXCEPT !.lines = Append(@, Head(stdout[drainOn]))]
    /\ UNCHANGED <<subs, emitted, fed>>

\* readline returns '' at the end of the stream: everything written has
\* been read and the child has exited.
monitor_logs_close ==
    /\ monitor_logs_eof
    /\ stdout[drainOn] = <<>>
    /\ UNCHANGED conVars

\* lines[-100:]
last_lines(lines) ==
    IF Len(lines) <= 100 THEN lines ELSE SubSeq(lines, Len(lines) - 99, Len(lines))

NoStream == [pc |-> "none", pos |-> 0, got |-> <<>>, at |-> 0, running |-> FALSE]

\* stream_console_logs up to its tail loop (318-324): without a log file
\* the generator ends; otherwise readlines() reads the file to its end and
\* the last 100 lines are yielded.  The replay is one step: it works on the
\* list readlines() returned, and the handle stays where readlines() left
\* it.  at and running record the log length and is_running at this point.
stream_console_logs(s) ==
    /\ LoopFree
    /\ subs[s].pc = "none"
    /\ subs' = [subs EXCEPT ![s] =
                  IF log_file.exists
                    THEN [pc |-> "tail", pos |-> Len(log_file.lines),
                          got |-> last_lines(log_file.lines),
                          at |-> Len(log_file.lines), running |-> is_running]
                    ELSE [pc |-> "ended", pos |-> 0, got |-> <<>>,
                          at |-> 0, running |-> is_running]]
    /\ UNCHANGED <<stdout, log_file, emitted, fed>>
    /\ UNCHANGED profVars

\* One round of its tail loop (326-334): readline; a line goes through both
\* extractors and is yielded, no line means await asyncio.sleep(0.1).
stream_readline(s) ==
    /\ LoopFree
    /\ subs[s].pc \in {"tail", "sleep"}
    /\ IF subs[s].pos < Len(log_file.lines)
         THEN LET line == log_file.lines[subs[s].pos + 1] IN
              /\ SetParser(mspt_parsed(tps_parsed(Parser, ConsoleText(line)),
                                       ConsoleText(line)))
              /\ fed' = Append(fed, line)
              /\ subs' = [subs EXCEPT ![s].pc = "tail",
                                      ![s].pos = @ + 1,
                                      ![s].got = Append(@, line)]
         ELSE /\ subs' = [subs EXCEPT ![s].pc = "sleep"]
              /\ UNCHANGED <<current_tps, current_tick_time, tps_history,
                             tick_time_history, appended, fed>>
    /\ UNCHANGED <<stdout, log_file, emitted>>
    /\ UNCHANGED <<cpu_history, memory_history, timestamp_history,
                   current_cpu, current_memory, profCall>>

\* A manager whose log file does not exist yet.
InitCon ==
    /\ stdout = [p \in Pids |-> <<>>]
    /\ log_file = NoLog
    /\ subs = [s \in Subscribers |-> NoStream]
    /\ emitted = <<>>
    /\ fed = <<>>

\* A manager started over the files of earlier runs: no log, an empty log,
\* or a log of 100 or 101 lines.
InitConsole ==
    /\ InitPC /\ InitReg /\ InitSched /\ InitProf /\ InitPeer /\ InitMon /\ InitLife
    /\ stdout = [p \in Pids |-> <<>>]
    /\ log_file \in {NoLog, LogOf(0), LogOf(100), LogOf(101)}
    /\ subs = [s \in Subscribers |-> NoStream]
    /\ emitted = <<>>
    /\ fed = <<>>

Init == InitPC /\ InitReg /\ InitSched /\ InitProf /\ InitCon /\ InitPeer /\ InitMon /\ InitLife

\* A profiler whose current values were set by earlier readings and reports.
InitAlerts ==
    /\ InitPC /\ InitReg /\ InitSched /\ InitCon /\ InitPeer /\ InitMon /\ InitLife
    /\ tps_history = <<>>
    /\ cpu_history = <<>>
    /\ memory_history = <<>>
    /\ tick_time_history = <<>>
    /\ timestamp_history = <<>>
    /\ current_tps \in TpsValues
    /\ current_cpu \in CpuValues
    /\ current_memory \in MemoryValues
    /\ current_tick_time \in TickTimeValues
    /\ appended = [s \in Series |-> <<>>]
    /\ profCall = ProfDone("none", <<>>)

NextPC ==
    \/ start_server /\ UNCHANGED <<regVars, schedVars, profVars, conVars, peerVars, monVars, lifeVars>>
    \/ stop_server /\ UNCHANGED <<regVars, schedVars, profVars, conVars, peerVars, monVars, lifeVars>>
    \/ (\E c \in Commands : send_command(c)) /\ UNCHANGED <<regVars, schedVars, profVars, conVars, peerVars, monVars, lifeVars>>
    \/ get_status /\ UNCHANGED <<regVars, schedVars, profVars, conVars, peerVars, monVars, lifeVars>>
    \/ restart_begin /\ UNCHANGED <<regVars, schedVars, profVars, conVars, peerVars, monVars, lifeVars>>
    \/ restart_resume /\ UNCHANGED <<regVars, schedVars, profVars, conVars, peerVars, monVars, lifeVars>>
    \/ monitor_logs_run /\ UNCHANGED <<regVars, schedVars, profVars, conVars, peerVars, monVars, lifeVars>>
    \/ monitor_logs_eof /\ UNCHANGED <<regVars, schedVars, profVars, conVars, peerVars, monVars, lifeVars>>
    \/ (\E p \in Pids : ProcExit(p)) /\ UNCHANGED <<regVars, schedVars, profVars, conVars, peerVars, monVars, lifeVars>>
    \/ Tick /\ UNCHANGED <<regVars, schedVars, profVars, conVars, peerVars, monVars, lifeVars>>

SpecPC == Init /\ [][NextPC]_vars

NextReg ==
    \/ (\E n \in Names, p \in Ports \cup {None} : create_server(n, p)) /\ UNCHANGED <<pcVars, schedVars, profVars, conVars, peerVars, monVars, lifeVars>>
    \/ (\E id \in AllIds : delete_server(id)) /\ UNCHANGED <<pcVars, schedVars, profVars, conVars, peerVars, monVars, lifeVars>>
    \/ (\E id \in AllIds : set_current_server(id)) /\ UNCHANGED <<pcVars, schedVars, profVars, conVars, peerVars, monVars, lifeVars>>
    \/ (\E id \in AllIds, n \in Names \cup {NoName}, p \in Ports \cup {None} :
            update_server_info(id, n, p)) /\ UNCHANGED <<pcVars, schedVars, profVars, conVars, peerVars, monVars, lifeVars>>
    \/ (\E id \in AllIds \cup {None} : get_manager(id)) /\ UNCHANGED <<pcVars, schedVars, profVars, conVars, peerVars, monVars, lifeVars>>

SpecReg == Init /\ [][NextReg]_vars

\* Tasks of the scheduler runs: a nightly backup and an hourly console
\* command, each also with a malformed expression, enabled or not, with or
\* without an id.  No server is started in these runs, so the command action
\* always fails, and the clock stands still, so a second backup finds the
\* directory of the first.
SchedInputs ==
    {t \in TaskInputs :
        \/ t.task_type = "backup" /\ t.schedule \in {Nightly, Malformed}
        \/ t.task_type = "command" /\ t.command # "" /\ t.schedule \in {Hourly, Malformed}}

\* update_scheduled_task overwrites the id of the task it is given (line 560):
\* the tasks passed to it carry an id that is not the one updated.
UpdateInputs(inputs) == {t \in inputs : t.id = NoId}

NextSched ==
    \/ (\E t \in SchedInputs : create_scheduled_task(t)) /\ UNCHANGED <<pcVars, regVars, profVars, conVars, peerVars, monVars, lifeVars>>
    \/ (\E id \in TaskIds \cup TaskUuids, t \in UpdateInputs(SchedInputs) :
            update_scheduled_task(id, t)) /\ UNCHANGED <<pcVars, regVars, profVars, conVars, peerVars, monVars, lifeVars>>
    \/ (\E id \in TaskIds \cup TaskUuids : delete_scheduled_task(id))
            /\ UNCHANGED <<pcVars, regVars, profVars, conVars, peerVars, monVars, lifeVars>>
    \/ (\E j \in jobs : execute_scheduled_task(j)) /\ UNCHANGED <<regVars, profVars, conVars, peerVars, monVars, lifeVars>>

SpecSched == Init /\ [][NextSched]_vars

\* Tasks of the dispatch runs: enabled tasks with a valid expression, a
\* restart or a console command.  The server is started by the restart
\* tasks and exits on its own, so each action can succeed and can fail.
DispatchInputs ==
    {t \in TaskInputs :
        /\ t.enabled
        /\ \/ t.task_type = "restart" /\ t.schedule = Nightly
           \/ t.task_type = "command" /\ t.command # "" /\ t.schedule = Hourly}

NextDispatch ==
    \/ (\E t \in DispatchInputs : create_scheduled_task(t)) /\ UNCHANGED <<pcVars, regVars, profVars, conVars, peerVars, monVars, lifeVars>>
    \/ (\E j \in jobs : execute_scheduled_task(j)) /\ UNCHANGED <<regVars, profVars, conVars, peerVars, monVars, lifeVars>>
    \/ (\E id \in inflight : execute_resume(id)) /\ UNCHANGED <<regVars, profVars, conVars, peerVars, monVars, lifeVars>>
    \/ (\E p \in Pids : ProcExit(p)) /\ UNCHANGED <<regVars, schedVars, profVars, conVars, peerVars, monVars, lifeVars>>

SpecDispatch == Init /\ [][NextDispatch]_vars

NextProf ==
    \/ (\E l \in Lines : parse_tps_from_log(l))
            /\ UNCHANGED <<pcVars, regVars, schedVars, conVars, peerVars, monVars, lifeVars>>
    \/ (\E l \in Lines : parse_mspt_from_log(l))
            /\ UNCHANGED <<pcVars, regVars, schedVars, conVars, peerVars, monVars, lifeVars>>
    \/ (\E o \in TickOutcomes : monitor_tick(o))
            /\ UNCHANGED <<pcVars, regVars, schedVars, conVars, peerVars, monVars, lifeVars>>

SpecProf == Init /\ [][NextProf]_vars

NextParse ==
    \/ (\E l \in ParseLines : parse_tps_from_log(l))
            /\ UNCHANGED <<pcVars, regVars, schedVars, conVars, peerVars, monVars, lifeVars>>
    \/ (\E l \in ParseLines : parse_mspt_from_log(l))
            /\ UNCHANGED <<pcVars, regVars, schedVars, conVars, peerVars, monVars, lifeVars>>
    \/ (\E l \in ParseLines : parse_line(l))
            /\ UNCHANGED <<pcVars, regVars, schedVars, conVars, peerVars, monVars, lifeVars>>

SpecParse == Init /\ [][NextParse]_vars

NextAlerts ==
    \/ call_get_alerts /\ UNCHANGED <<pcVars, regVars, schedVars, conVars, peerVars, monVars, lifeVars>>
    \/ call_get_current_metrics /\ UNCHANGED <<pcVars, regVars, schedVars, conVars, peerVars, monVars, lifeVars>>

SpecAlerts == InitAlerts /\ [][NextAlerts]_vars

NextConsole ==
    \/ start_server /\ UNCHANGED <<regVars, schedVars, profVars, conVars, peerVars, monVars, lifeVars>>
    \/ (\E p \in Pids : ProcExit(p)) /\ UNCHANGED <<regVars, schedVars, profVars, conVars, peerVars, monVars, lifeVars>>
    \/ (\E p \in Pids : proc_write(p)) /\ UNCHANGED <<pcVars, regVars, schedVars, profVars, peerVars, monVars, lifeVars>>
    \/ monitor_logs_open /\ UNCHANGED <<regVars, schedVars, profVars, peerVars, monVars, lifeVars>>
    \/ monitor_logs_write /\ UNCHANGED <<pcVars, regVars, schedVars, profVars, peerVars, monVars, lifeVars>>
    \/ monitor_logs_close /\ UNCHANGED <<regVars, schedVars, profVars, peerVars, monVars, lifeVars>>
    \/ (\E s \in Subscribers : stream_console_logs(s)) /\ UNCHANGED <<pcVars, regVars, schedVars, peerVars, monVars, lifeVars>>
    \/ (\E s \in Subscribers : stream_readline(s)) /\ UNCHANGED <<pcVars, regVars, schedVars, peerVars, monVars, lifeVars>>

SpecConsole == InitConsole /\ [][NextConsole]_vars

\* One manager with its console drain, and calls on a second manager.
\* The lifecycle calls of one manager with backups; a scheduled restart
\* runs the coroutine of restart_server.
NextLife ==
    \/ start_server /\ UNCHANGED <<regVars, schedVars, profVars, conVars, peerVars, monVars, lifeVars>>
    \/ stop_server /\ UNCHANGED <<regVars, schedVars, profVars, conVars, peerVars, monVars, lifeVars>>
    \/ restart_begin /\ UNCHANGED <<regVars, schedVars, profVars, conVars, peerVars, monVars, lifeVars>>
    \/ restart_resume /\ UNCHANGED <<regVars, schedVars, profVars, conVars, peerVars, monVars, lifeVars>>
    \/ monitor_logs_run /\ UNCHANGED <<regVars, schedVars, profVars, conVars, peerVars, monVars, lifeVars>>
    \/ monitor_logs_eof /\ UNCHANGED <<regVars, schedVars, profVars, conVars, peerVars, monVars, lifeVars>>
    \/ (\E p \in Pids : ProcExit(p)) /\ UNCHANGED <<regVars, schedVars, profVars, conVars, peerVars, monVars, lifeVars>>
    \/ create_backup /\ UNCHANGED <<regVars, profVars, conVars, peerVars, monVars>>
    \/ (\E n \in BackupNames : restore_backup(n))
            /\ UNCHANGED <<regVars, schedVars, profVars, conVars, peerVars, monVars>>

SpecLife == Init /\ [][NextLife]_vars

NextMon ==
    \/ start_monitoring /\ UNCHANGED <<pcVars, regVars, schedVars, conVars, peerVars, lifeVars>>
    \/ stop_monitoring /\ UNCHANGED <<pcVars, regVars, schedVars, conVars, peerVars, lifeVars>>
    \/ (\E o \in LoopOutcomes : monitor_loop(o))
            /\ UNCHANGED <<pcVars, regVars, schedVars, conVars, peerVars, lifeVars>>
    \/ monitor_wake /\ UNCHANGED <<pcVars, regVars, schedVars, conVars, peerVars, lifeVars>>

SpecMon == Init /\ [][NextMon]_vars

\* A sleep of the loop returns when its time is up.
SpecMonFair ==
    /\ SpecMon
    /\ WF_vars(monitor_wake /\ UNCHANGED <<pcVars, regVars, schedVars, conVars, peerVars, lifeVars>>)

NextLoop ==
    \/ start_server /\ UNCHANGED <<regVars, schedVars, profVars, conVars, peerVars, monVars, lifeVars>>
    \/ stop_server /\ UNCHANGED <<regVars, schedVars, profVars, conVars, peerVars, monVars, lifeVars>>
    \/ get_status /\ UNCHANGED <<regVars, schedVars, profVars, conVars, peerVars, monVars, lifeVars>>
    \/ monitor_logs_run /\ UNCHANGED <<regVars, schedVars, profVars, conVars, peerVars, monVars, lifeVars>>
    \/ monitor_logs_eof /\ UNCHANGED <<regVars, schedVars, profVars, conVars, peerVars, monVars, lifeVars>>
    \/ (\E p \in Pids : ProcExit(p)) /\ UNCHANGED <<regVars, schedVars, profVars, conVars, peerVars, monVars, lifeVars>>
    \/ peer_get_status /\ UNCHANGED <<pcVars, regVars, schedVars, profVars, conVars, monVars, lifeVars>>
    \/ (\E c \in Commands : peer_send_command(c)) /\ UNCHANGED <<pcVars, regVars, schedVars, profVars, conVars, monVars, lifeVars>>
    \/ peer_stop_server /\ UNCHANGED <<pcVars, regVars, schedVars, profVars, conVars, monVars, lifeVars>>

SpecLoop == Init /\ [][NextLoop]_vars

\* The event loop runs a ready task sooner or later: a _monitor_logs task
\* that was created, a readline that has a line or the end of the stream
\* to return, a subscriber's tail loop with an unread line.  Nothing makes
\* a child write or exit.
SpecConsoleFair ==
    /\ SpecConsole
    /\ WF_vars(monitor_logs_open /\ UNCHANGED <<regVars, schedVars, profVars, peerVars, monVars, lifeVars>>)
    /\ WF_vars(monitor_logs_write /\ UNCHANGED <<pcVars, regVars, schedVars, profVars, peerVars, monVars, lifeVars>>)
    /\ WF_vars(monitor_logs_close /\ UNCHANGED <<regVars, schedVars, profVars, peerVars, monVars, lifeVars>>)
    /\ \A s \in Subscribers :
          WF_vars(stream_readline(s) /\ UNCHANGED <<pcVars, regVars, schedVars, peerVars, monVars, lifeVars>>)

\* ------------------------------------------------- claims on MinecraftManager

\* What an observer outside the manager sees of the child.
ChildAlive == server_process # None /\ server_process \in alive
HandleState == <<server_process, start_time, chan, spawned, alive, killed>>

\* C1: a lifecycle call made from a state that violates its precondition
\* (start while the child runs; stop or send_command while no child runs)
\* fails and leaves the handle, the start timestamp and the command channel
\* as they were: nothing is spawned, killed or written.
C1_RejectedCallKeepsHandle ==
    [][ /\ (start_server /\ ChildAlive) =>
              (lastCall'.result = "AlreadyRunning" /\ UNCHANGED HandleState)
        /\ (stop_server /\ ~ChildAlive) =>
              (lastCall'.result = "NotRunning" /\ UNCHANGED HandleState)
        /\ ((\E c \in Commands : send_command(c)) /\ ~ChildAlive) =>
              (lastCall'.result = "NotRunning" /\ UNCHANGED HandleState) ]_vars

\* A start was rejected while the child it found is running, with nothing
\* written to that child's channel.
C1_Witness ==
    /\ lastCall = Done("start", "AlreadyRunning")
    /\ ChildAlive
    /\ spawned = {server_process}
    /\ chan[server_process] = <<>>

\* C2: a start() that follows a successful start() with no call and no exit
\* of the child in between fails with "already running" and spawns no second
\* child; a stop() on a manager that never started a child fails with
\* "not running".
C2_StartTwiceStopFresh ==
    [][ /\ (lastCall = Done("start", "ok") /\ ChildAlive /\ start_server) =>
              (lastCall'.result = "AlreadyRunning" /\ spawned' = spawned
               /\ server_process' = server_process)
        /\ (spawned = {} /\ stop_server) =>
              (lastCall'.result = "NotRunning" /\ server_process' = None
               /\ spawned' = {}) ]_vars

\* The second of two starts was rejected and one child exists.
C2_Witness ==
    /\ lastCall = Done("start", "AlreadyRunning")
    /\ Cardinality(spawned) = 1
    /\ ChildAlive
    /\ pendingDrains = 1

\* C3: every stop() that passes its Running precondition ends with the
\* handle cleared (no process identity, no start timestamp), on every path.
C3_StopAlwaysClears ==
    [][ (stop_server /\ ChildAlive) =>
            (server_process' = None /\ start_time' = NoTime) ]_vars

\* C4: restart() makes the transitions of stop(), a settle wait, start():
\* from Running it passes through Stopped with the handle cleared and, its
\* own start finding no child, ends Running with a newly spawned child and
\* a fresh start timestamp; from Stopped the stop step is skipped.
C4_RestartIsStopWaitStart ==
    [][ /\ (restart_begin /\ ChildAlive) =>
              (server_process' = None /\ start_time' = NoTime
               /\ sleepers' = sleepers + 1)
        /\ (restart_begin /\ ~ChildAlive) =>
              (UNCHANGED HandleState /\ sleepers' = sleepers + 1)
        /\ (restart_resume /\ ~ChildAlive) =>
              (ChildAlive' /\ server_process' \notin spawned
               /\ start_time' = now /\ lastCall'.result = "ok") ]_vars

\* C5: once start() has succeeded, and for as long as the child is alive,
\* the next calls of the scenario (status, sendCommand, stop) can be served
\* while the console drain task is active.
C5_ScenarioCanProceed ==
    (ChildAlive /\ lastCall.op \in {"start", "status", "send"}) =>
        (ENABLED get_status /\ ENABLED stop_server)

\* ---------------------------------------------------- claims on ServerManager

Others(ss, id) == SelectSeq(ss, LAMBDA r : r.id # id)
Occurrences(ss, id) == Cardinality({i \in 1..Len(ss) : ss[i].id = id})

\* C6: after any sequence of registry operations no two instances in the
\* registry hold the same port.
C6_PortsUnique ==
    \A i, j \in 1..Len(servers) : i # j => servers[i].port # servers[j].port

\* C7: createInstance with an explicit port that a registered instance holds
\* fails with PortInUse and leaves the records, the current id and the
\* registry file unchanged.
C7_CreateOnTakenPortRejected ==
    [][ \A n \in Names, p \in Ports :
          (create_server(n, p) /\ p \in UsedPorts(servers)) =>
              /\ regCall'.result = "PortInUse"
              /\ UNCHANGED <<servers, current_server_id, config_file>> ]_vars

\* C8: starting from an empty registry file, the registry is never empty and
\* the current id names exactly one registered instance; selectCurrent with
\* an unknown id is rejected and leaves current unchanged.
C8_CurrentAlwaysRegistered ==
    /\ [](/\ Len(servers) > 0
          /\ current_server_id # None
          /\ Occurrences(servers, current_server_id) = 1)
    /\ [][ \A id \in AllIds :
             (set_current_server(id) /\ id \notin ServerIds(servers)) =>
                 (regCall'.result = "False"
                  /\ current_server_id' = current_server_id) ]_vars

\* The only instance was deleted and a new default instance took its place
\* as current.
C8_Witness ==
    /\ regCall = RegDone("delete", "True")
    /\ Len(servers) = 1
    /\ servers[1].id > 1
    /\ servers[1].name = DefaultName
    /\ current_server_id = servers[1].id

\* C10: deleting the current instance makes a remaining instance current, or
\* a freshly created default instance when none remains; deleting another
\* instance leaves the current id and every other record unchanged.
C10_DeleteRepointsCurrent ==
    [][ \A id \in AllIds :
          (delete_server(id) /\ id \in ServerIds(servers)) =>
             LET rest == Others(servers, id) IN
             IF current_server_id # id
               THEN current_server_id' = current_server_id /\ servers' = rest
               ELSE IF rest # <<>>
                      THEN current_server_id' \in ServerIds(rest) /\ servers' = rest
                      ELSE /\ current_server_id' \notin 1..uuids
                           /\ servers' = <<[id |-> current_server_id',
                                            name |-> DefaultName,
                                            port |-> BasePort]>> ]_vars

\* The current instance was deleted while others remained, and one of them,
\* untouched, is current now.
C10_Witness ==
    /\ regCall = RegDone("delete", "True")
    /\ Len(servers) >= 1
    /\ current_server_id > 1
    /\ current_server_id < uuids
    /\ Occurrences(servers, current_server_id) = 1
    /\ 1 \notin ServerIds(servers)

\* C11: resolving a registered instance (explicitly or through the current
\* id) returns its controller stack, and the stack is cached under the
\* instance id, so that later calls return the same one.
C11_ResolveReturnsCachedStack ==
    [][ \A id \in AllIds \cup {None} :
          LET sid == IF id = None THEN current_server_id ELSE id IN
          (get_manager(id) /\ sid \in ServerIds(servers)) =>
             /\ regCall'.result = "manager"
             /\ sid \in managers' ]_vars

\* ------------------------------------------------ claims on scheduled tasks

AllTaskIds == TaskIds \cup TaskUuids
Registered(js, id) == {j \in js : j.id = id}
\* Job j runs the task stored now: same object, same trigger and action.
Mirrors(j, rec) ==
    /\ j.live
    /\ j.trigger = rec.schedule
    /\ j.task_type = rec.task_type
    /\ j.command = rec.command

\* C12: the dispatch table mirrors the task records: a job is registered for
\* an id exactly when a record is stored under it and is enabled, and that
\* job runs the action and the schedule of the stored record.  Stated for
\* the task sets in which every stored expression is a valid one.
C12_DispatchMirrorsRecords ==
    (\A k \in DOMAIN scheduled_tasks : from_crontab_ok(scheduled_tasks[k].schedule)) =>
    \A id \in AllTaskIds :
        IF id \in DOMAIN scheduled_tasks /\ scheduled_tasks[id].enabled
          THEN /\ Registered(jobs, id) # {}
               /\ \A j \in Registered(jobs, id) : Mirrors(j, scheduled_tasks[id])
          ELSE Registered(jobs, id) = {}

C14_CreateRegistersDeleteRemoves ==
    [][ /\ \A t \in SchedInputs :
             (create_scheduled_task(t) /\ t.enabled /\ from_crontab_ok(t.schedule)) =>
                \E id \in AllTaskIds :
                   /\ IF t.id = NoId THEN id \notin DOMAIN scheduled_tasks ELSE id = t.id
                   /\ id \in DOMAIN scheduled_tasks'
                   /\ scheduled_tasks'[id] = [t EXCEPT !.id = id]
                   /\ Cardinality(Registered(jobs', id)) = 1
                   /\ \A j \in Registered(jobs', id) : Mirrors(j, scheduled_tasks'[id])
        /\ \A id \in AllTaskIds :
             (delete_scheduled_task(id) /\ id \in DOMAIN scheduled_tasks) =>
                /\ Registered(jobs', id) = {}
                /\ id \notin DOMAIN scheduled_tasks'
                /\ DOMAIN scheduled_tasks = {id} =>
                      get_scheduled_tasks' = {} /\ jobs' = {} ]_vars

\* The only task has been deleted after its job had fired (a backup exists):
\* no record and no job are left.
C14_Witness ==
    /\ schedCall = SchedDone("delete", "ok")
    /\ backups # {}
    /\ get_scheduled_tasks = {}
    /\ jobs = {}

\* C15: update and delete of an id under which no task is stored fail with
\* NotFound and change neither the records, nor the jobs, nor the tasks file.
C15_UnknownIdChangesNothing ==
    [][ \A id \in AllTaskIds :
          id \notin DOMAIN scheduled_tasks =>
             /\ \A t \in UpdateInputs(SchedInputs) :
                   update_scheduled_task(id, t) =>
                      /\ schedCall' = SchedDone("update", "NotFound")
                      /\ UNCHANGED <<scheduled_tasks, jobs, tasks_file>>
             /\ delete_scheduled_task(id) =>
                   /\ schedCall' = SchedDone("delete", "NotFound")
                   /\ UNCHANGED <<scheduled_tasks, jobs, tasks_file>> ]_vars

\* A call on an unknown id was refused while another task, with its job and
\* its saved record, was in place.
C15_Witness ==
    /\ schedCall.result = "NotFound"
    /\ schedCall.op \in {"update", "delete"}
    /\ Cardinality(DOMAIN scheduled_tasks) = 1
    /\ jobs # {}
    /\ tasks_file.exists /\ tasks_file.tasks # {}

\* C16: create and update of a task whose cron expression is invalid fail
\* with the error of the expression, whether the task is enabled or not, and
\* the task is not accepted: the records and the jobs stay as they were.
C16_InvalidScheduleRejected ==
    [][ \A t \in SchedInputs :
          ~from_crontab_ok(t.schedule) =>
             /\ create_scheduled_task(t) =>
                   /\ schedCall' = SchedDone("create", "ValueError")
                   /\ UNCHANGED <<scheduled_tasks, jobs>>
             /\ \A id \in DOMAIN scheduled_tasks :
                   update_scheduled_task(id, t) =>
                      /\ schedCall' = SchedDone("update", "ValueError")
                      /\ UNCHANGED <<scheduled_tasks, jobs>> ]_vars

\* The task list read back from scheduled_tasks.json (none without a file).
StoredTasks == IF tasks_file.exists THEN tasks_file.tasks ELSE {}

\* C17: once a scheduler call or a dispatch has returned, normally or with an
\* error, the task list in the file is the set of task records in memory.
C17_FileEqualsMemory ==
    inflight = {} =>
       StoredTasks = {task_dict(scheduled_tasks[k]) : k \in DOMAIN scheduled_tasks}

\* C18: each firing of a job records the time of the run on the task record
\* stored under the job's id at that moment, and the file written at the end
\* of the run holds that record.
C18_FiringStampsStoredRecord ==
    [][ \A j \in jobs :
          execute_scheduled_task(j) =>
             /\ j.id \in DOMAIN scheduled_tasks'
             /\ scheduled_tasks'[j.id].last_run = now
             /\ task_dict(scheduled_tasks'[j.id]) \in tasks_file'.tasks ]_vars

\* The run of job j ended in this step with its action failed.
FailedRun(j) ==
    /\ execute_scheduled_task(j) \/ (j.id \in inflight /\ execute_resume(j.id))
    /\ j.id \notin inflight'
    /\ schedCall' = SchedDone("fire", "failed")

\* Job k can be dispatched now: the loop is free and no run of k is pending
\* (the run itself stays within the bounds of the model).
Dispatchable(k) ==
    /\ drainOn = None
    /\ k.id \notin inflight
    /\ k.task_type = "restart" => sleepers < MaxRestarts
    /\ (k.task_type = "command" /\ ChildAlive) => Len(chan[server_process]) < MaxChan
StillFires(k) == Dispatchable(k) => ENABLED execute_scheduled_task(k)

\* C19: a scheduled action that fails is caught by the dispatch: every job,
\* that of the failing task included, stays registered and fires again when
\* dispatched, and a console command that fails leaves the handle, the start
\* time and the command channels as they were (and the child too, when the
\* command failed for want of a running server).
C19_FailedActionContained ==
    [][ \A j \in jobs :
          FailedRun(j) =>
             /\ jobs' = jobs
             /\ inflight' = inflight \ {j.id}
             /\ \A k \in jobs' : StillFires(k)'
             /\ j.task_type = "command" =>
                   /\ UNCHANGED <<server_process, start_time, chan, spawned, killed>>
                   /\ lastCall'.result = "NotRunning" => alive' = alive ]_vars

\* A console command has just failed on a server that had been started and
\* has exited, while two jobs are registered.
C19_Witness ==
    /\ schedCall = SchedDone("fire", "failed")
    /\ lastCall = Done("send", "NotRunning")
    /\ server_process # None
    /\ Cardinality(jobs) = 2
    /\ \A id \in DOMAIN scheduled_tasks : scheduled_tasks[id].last_run # NoTime

\* ------------------------------------------------ claims on the profiler

History(s) ==
    CASE s = "tps" -> tps_history
      [] s = "cpu" -> cpu_history
      [] s = "memory" -> memory_history
      [] s = "tick_time" -> tick_time_history
      [] s = "timestamp" -> timestamp_history

\* The last n elements of seq, oldest first.
LastN(seq, n) == IF Len(seq) <= n THEN seq ELSE SubSeq(seq, Len(seq) - n + 1, Len(seq))

\* C20: a history buffer never holds more than history_size samples, and it
\* holds the last history_size values appended to it (all of them while
\* there are fewer), in the order in which they were appended.
C20_RingKeepsLastN ==
    \A s \in Series :
        /\ Len(History(s)) <= history_size
        /\ History(s) = LastN(appended[s], history_size)

\* history_size + 2 values went into the tick-rate series, the oldest ones
\* are gone, and the buffer holds two different values.
C20_Witness ==
    /\ Len(appended["tps"]) = history_size + 2
    /\ Len(tps_history) = history_size
    /\ appended["tps"][1] # tps_history[1]
    /\ tps_history[1] # tps_history[history_size]

\* C21: get_history_metrics returns the same number of samples for every
\* series, min(duration_seconds, samples available), so that index i of
\* every series is the same sampling tick.
C21_HistorySeriesAligned ==
    \A d \in Durations :
       \A s \in Series :
          Len(get_history_metrics(d)[s]) = Min2(d, Len(timestamp_history))

\* The tick rate a line reports: the first number after the "TPS" marker
\* that is a rate, not the length of an averaging window ("1m", "5m").
HasMarker(line) == \E i \in 1..Len(line) : line[i].w = "TPS"
Rates(line) ==
    {k \in 1..Len(line) :
        /\ line[k].w = "#"
        /\ \E i \in 1..(k - 1) : line[i].w = "TPS"
        /\ ~(k < Len(line) /\ line[k + 1].w \in {"m,", "m:"})}
ReportedRate(line) == line[SetMin(Rates(line))].n

\* C22: after parse_tps_from_log has processed a line with the marker
\* followed by a rate v, the tps of get_current_metrics() is v; a line
\* without the marker leaves it as it was.
C22_TickRateIsReportedRate ==
    [][ \A l \in ParseLines :
          parse_tps_from_log(l) =>
             IF HasMarker(l) /\ Rates(l) # {}
               THEN get_current_metrics'.tps = ReportedRate(l)
               ELSE get_current_metrics'.tps = get_current_metrics.tps ]_vars

\* The mean tick duration a line reports, in tenths of a millisecond.
ReportedDuration(line) ==
    {line[k].n : k \in {j \in 1..(Len(line) - 1) :
                           line[j].w = "#" /\ line[j + 1].w = "ms"}}

\* C23: for a reported tick duration d > 0 parse_mspt_from_log sets the tick
\* rate to min(20, 1000 / d) (100 ms gives 10.0, 50 ms or less gives 20);
\* for d = 0 nothing is divided and the current tick rate and the tick-rate
\* history stay as they were.
C23_RateFromDuration ==
    [][ \A l \in ParseLines :
          \A d \in ReportedDuration(l) :
             parse_mspt_from_log(l) =>
                IF d > 0
                  THEN /\ current_tps' = (IF d <= 500 THEN 200 ELSE 100000 \div d)
                       /\ (d = 1000 => current_tps' = 100)
                       /\ appended'["tps"] = Append(appended["tps"], current_tps')
                  ELSE /\ current_tps' = current_tps
                       /\ tps_history' = tps_history
                       /\ appended'["tps"] = appended["tps"] ]_vars

\* A 100 ms report followed by a 0 ms report: the rate is still 10.0.
C23_Witness ==
    LET t == appended["tick_time"] IN
    /\ Len(t) >= 2
    /\ t[Len(t)] = 0
    /\ t[Len(t) - 1] = 1000
    /\ current_tick_time = 0
    /\ current_tps = 100
    /\ Len(appended["tps"]) = Len(t) - 1

Categories == {"tps", "cpu", "memory", "tick_time"}
AlertsOf(alerts, type) == {i \in 1..Len(alerts) : alerts[i].type = type}
LevelsOf(alerts, type) == {alerts[i].level : i \in AlertsOf(alerts, type)}
GotAlerts == profCall.op = "get_alerts"

\* C24: whatever the four current values are, get_alerts() returns at most
\* one alert per category, so at most four, and a value beyond both
\* thresholds of its category gives a critical alert.
C24_OneAlertPerCategory ==
    GotAlerts =>
       LET alerts == profCall.result IN
       /\ Len(alerts) <= 4
       /\ \A i \in 1..Len(alerts) : alerts[i].type \in Categories
       /\ \A c \in Categories : Cardinality(AlertsOf(alerts, c)) <= 1
       /\ (current_tps < 150 => LevelsOf(alerts, "tps") = {"critical"})
       /\ (current_cpu > 900 => LevelsOf(alerts, "cpu") = {"critical"})
       /\ (current_memory > 900 => LevelsOf(alerts, "memory") = {"critical"})
       /\ (current_tick_time > 1000 => LevelsOf(alerts, "tick_time") = {"critical"})

\* Every category beyond both of its thresholds: four alerts.
C24_Witness ==
    /\ GotAlerts
    /\ current_tps = 149 /\ current_cpu = 901
    /\ current_memory = 901 /\ current_tick_time = 1001
    /\ Len(profCall.result) = 4

\* C25: the thresholds are strict.  tps 18.0 gives no tps alert, 15.0 a
\* warning, 14.9 exactly one critical; cpu 75 / 90, memory 80 / 90 and tick
\* time 70 / 100 give none at the warning boundary and a warning at the
\* critical boundary.
C25_StrictThresholds ==
    GotAlerts =>
       LET alerts == profCall.result IN
       /\ (current_tps = 180 => AlertsOf(alerts, "tps") = {})
       /\ (current_tps = 150 => LevelsOf(alerts, "tps") = {"warning"})
       /\ (current_tps = 149 =>
             /\ Cardinality(AlertsOf(alerts, "tps")) = 1
             /\ LevelsOf(alerts, "tps") = {"critical"})
       /\ (current_cpu = 750 => AlertsOf(alerts, "cpu") = {})
       /\ (current_cpu = 900 => LevelsOf(alerts, "cpu") = {"warning"})
       /\ (current_memory = 800 => AlertsOf(alerts, "memory") = {})
       /\ (current_memory = 900 => LevelsOf(alerts, "memory") = {"warning"})
       /\ (current_tick_time = 700 => AlertsOf(alerts, "tick_time") = {})
       /\ (current_tick_time = 1000 => LevelsOf(alerts, "tick_time") = {"warning"})

\* Every value on its critical boundary: four warnings.
C25_Witness ==
    /\ GotAlerts
    /\ current_tps = 150 /\ current_cpu = 900
    /\ current_memory = 900 /\ current_tick_time = 1000
    /\ \A i \in 1..4 : profCall.result[i].level = "warning"

\* C26: the status of get_current_metrics() is excellent from 19.5, good
\* from 18.0, fair from 15.0 and poor below; it is fair exactly when
\* get_alerts() holds a tps warning and poor exactly when it holds a tps
\* critical.
C26_StatusMatchesAlerts ==
    profCall.op = "get_current_metrics" =>
       LET status == profCall.result.status
           tps == profCall.result.tps IN
       /\ tps = current_tps
       /\ (status = "excellent") = (tps >= 195)
       /\ (status = "good") = (180 <= tps /\ tps < 195)
       /\ (status = "fair") = (150 <= tps /\ tps < 180)
       /\ (status = "poor") = (tps < 150)
       /\ (status = "fair") = ("warning" \in LevelsOf(get_alerts, "tps"))
       /\ (status = "poor") = ("critical" \in LevelsOf(get_alerts, "tps"))

\* Exactly 15.0: fair, with a tps warning.
C26_Witness ==
    /\ profCall.op = "get_current_metrics"
    /\ current_tps = 150
    /\ profCall.result.status = "fair"
    /\ LevelsOf(get_alerts, "tps") = {"warning"}

Streaming(s) == subs[s].pc \in {"tail", "sleep"}
NewLines == (NewLine + 1) .. (NewLine + MaxEmit)
InSeq(k, seq) == \E i \in 1..Len(seq) : seq[i] = k
\* What a subscriber is owed so far: the last min(100, n) of the n lines
\* the log held when it subscribed, then the lines after them it has read.
Replayed(s) == LastN(SubSeq(log_file.lines, 1, subs[s].at), Min2(100, subs[s].at))
Owed(s) == Replayed(s) \o SubSeq(log_file.lines, subs[s].at + 1, subs[s].pos)

\* C27: a subscriber receives the last min(100, n) lines of the log in log
\* order, then every line appended after it subscribed, in order, none lost
\* and none twice: what it has received is always the replay followed by
\* the appended lines read so far, and every line in the log reaches it.
C27_ReplayThenTail ==
    /\ [](\A s \in Subscribers : Streaming(s) => subs[s].got = Owed(s))
    /\ \A s \in Subscribers : \A k \in NewLines :
          (Streaming(s) /\ InSeq(k, log_file.lines)) ~> InSeq(k, subs[s].got)

\* C28: a subscriber that subscribes while the process is stopped is given
\* the replay only, and its stream ends without waiting for more lines.
C28_StoppedStreamEnds ==
    \A s \in Subscribers :
       (subs[s].pc # "none" /\ ~subs[s].running) =>
          /\ subs[s].pc # "sleep"
          /\ subs[s].pos = subs[s].at

\* Nothing is left to do for the lines written so far: no child runs, no
\* _monitor_logs task is pending or reading, the pipes are empty and every
\* subscriber has read the log to its end.
Settled ==
    /\ alive = {}
    /\ drainOn = None
    /\ pendingDrains = 0
    /\ \A p \in Pids : stdout[p] = <<>>
    /\ \A s \in Subscribers : Streaming(s) => subs[s].pos = Len(log_file.lines)
IsPrefix(a, b) == Len(a) <= Len(b) /\ a = SubSeq(b, 1, Len(a))
IsNew(k) == k > NewLine
Logged == SelectSeq(log_file.lines, IsNew)

\* C29: the lines a process writes are appended to the log and handed to
\* the extractors in the order they were written, and the extractors get
\* every one of them, with or without a subscriber.
C29_EveryLineParsedInOrder ==
    /\ IsPrefix(Logged, emitted)
    /\ IsPrefix(fed, emitted)
    /\ Settled => (Logged = emitted /\ fed = emitted)

\* A _monitor_logs task is inside readline, waiting for output of a child
\* that is still running.
DrainWaiting == drainOn # None /\ drainOn \in alive

\* C30: while a task of one instance waits at an I/O point, the operations
\* of another instance can still take steps.
C30_PeerStepsDuringWait ==
    DrainWaiting =>
       /\ ENABLED peer_get_status
       /\ ENABLED peer_stop_server
       /\ \A c \in Commands : ENABLED peer_send_command(c)

LoopEnded == monitor_task.pc \in {"done", "cancelled"}
Backoff == prof_running /\ Failure(monitor_task.last)
                        /\ monitor_task.pc \in {"sleep1", "sleep5"}

C32_LowestFreePort ==
    [][ \A n \in Names :
          create_server(n, None) =>
             LET p == servers'[Len(servers')].port IN
             /\ p >= BasePort
             /\ p \notin UsedPorts(servers)
             /\ \A q \in BasePort..(p - 1) : q \in UsedPorts(servers) ]_vars

\* A port above every port a caller can ask for: it was allocated, past
\* the ports that were taken.
C32_Witness ==
    /\ regCall.op = "create"
    /\ Len(servers) > 0
    /\ servers[Len(servers)].port = BasePort + PortSpan + 1

\* C33: whenever the process is not running the handle is cleared: no
\* process identity and no start timestamp, also after the child has exited
\* on its own.
C33_StoppedMeansCleared ==
    ~ChildAlive => (server_process = None /\ start_time = NoTime)

\* C34: stop_server writes "stop" to the child before it waits, and kills
\* the child only when the 30 s wait has timed out: a child that exits
\* within the wait is not killed, and a killed child was sent "stop" first.
C34_GracefulBeforeKill ==
    [][ \A o \in StopOutcomes :
          (stop_server /\ ChildAlive /\ stop_body(o)) =>
             LET p == server_process IN
             /\ (o = "graceful" =>
                   (killed' = killed /\ chan'[p] = Append(chan[p], "stop")))
             /\ (o = "timeout_kill" =>
                   (killed' = killed \cup {p} /\ chan'[p] = Append(chan[p], "stop")))
             /\ (killed' # killed => o = "timeout_kill")
             /\ \A q \in killed' :
                   Len(chan'[q]) > 0 /\ chan'[q][Len(chan'[q])] = "stop" ]_vars

\* One child was stopped within the wait and another had to be killed.
C34_Witness ==
    /\ lastCall = Done("stop", "ok")
    /\ \E p \in spawned \ killed :
          p \notin alive /\ Len(chan[p]) > 0 /\ chan[p][Len(chan[p])] = "stop"
    /\ killed # {}

\* C35: a tick in which the counters cannot be read (no container, or a
\* read that fails) is skipped as a whole: nothing is appended to any
\* series, the timestamps included, and current cpu and memory keep their
\* earlier values.
C35_FailedTickAppendsNothing ==
    [][ \A o \in {"no_container", "read_error"} :
          monitor_tick(o) =>
             /\ UNCHANGED <<tps_history, cpu_history, memory_history,
                            tick_time_history, timestamp_history>>
             /\ UNCHANGED <<current_cpu, current_memory>> ]_vars

\* C36: a rejected registry operation changes nothing.  An update that asks
\* for a new name and a port another instance holds fails and leaves the
\* records and servers.json as they were; a create_server that fails while
\* the manager is built leaves no new record.
C36_RejectedChangesNothing ==
    [][ /\ \A id \in AllIds, n \in Names, p \in Ports :
             (update_server_info(id, n, p) /\ regCall'.result = "PortInUse") =>
                UNCHANGED <<servers, config_file>>
        /\ \A n \in Names, p \in Ports \cup {None} :
             (create_server(n, p) /\ regCall'.result \in {"TypeError", "ValueError"}) =>
                UNCHANGED <<servers, config_file>> ]_vars

\* The tick rate written last, 20.0 before any was written.
LastWritten ==
    IF appended["tps"] = <<>> THEN 200
    ELSE appended["tps"][Len(appended["tps"])]

\* C37: the current tick rate is the value written by the last extractor
\* that wrote one, whatever was there before; when one line fires both
\* extractors the value derived from the duration is the one that stays.
C37_LastWriterWins ==
    /\ [](current_tps = LastWritten)
    /\ [][ \A l \in ParseLines : \A d \in ReportedDuration(l) :
             (parse_line(l) /\ HasMarker(l) /\ d > 0) =>
                current_tps' = (IF d <= 500 THEN 200 ELSE 100000 \div d) ]_vars

\* The line with both reports has gone through both extractors: 19.0 was
\* written, then 10.0 over it.
C37_Witness ==
    LET t == appended["tps"] IN
    /\ Len(t) >= 3
    /\ t[Len(t) - 2] = 160
    /\ t[Len(t) - 1] = 190
    /\ t[Len(t)] = 100
    /\ current_tps = 100
    /\ current_tick_time = 1000

\* How many times line k was handed to the extractors.
TimesFed(k) == Cardinality({i \in 1..Len(fed) : fed[i] = k})

\* C39: every console line goes through the extractors exactly once, with
\* no subscriber, one or several: never twice, and once when nothing is
\* left to do for it.
C39_ParsedExactlyOnce ==
    /\ \A k \in NewLines : TimesFed(k) <= 1
    /\ Settled => \A k \in NewLines : InSeq(k, emitted) => TimesFed(k) = 1

\* C38: at most one child process of the instance is alive at any time,
\* and a step that spawns a child leaves no earlier child alive.
C38_OneChildAlive ==
    /\ [](Cardinality(alive) <= 1)
    /\ [][ spawned' # spawned => alive' = spawned' \ spawned ]_vars

\* Two restarts overlapped: the second came out of its settle delay after
\* the first had started the child, and was turned away.
C38_Witness ==
    /\ lastCall = Done("restart", "AlreadyRunning")
    /\ ChildAlive
    /\ Cardinality(alive) = 1
    /\ sleepers = 0

\* C40: restore_backup of a name that does not exist fails and changes
\* neither the process nor the files; a restore of an existing backup puts
\* its files in place and leaves the instance as it found it: running
\* again, with a new child, if it was running, stopped if it was stopped.
C40_RestoreKeepsLifecycle ==
    [][ \A n \in BackupNames :
          restore_backup(n) =>
             IF n \notin backups
               THEN /\ lastCall'.result = "NotFound"
                    /\ UNCHANGED <<HandleState, minecraft_dir>>
               ELSE /\ minecraft_dir' = n
                    /\ ChildAlive' = ChildAlive
                    /\ (ChildAlive => server_process' \notin spawned) ]_vars

====
